---- MODULE Spec2Model ----
(***************************************************************************)
(* Model of glue_scripts/split_csv_rows.py: main() splits one CSV object   *)
(* into one object per data row, then writes a manifest and a run report.  *)
(* Strings that the program transforms (identifier values, file names,     *)
(* keys, URIs) are sequences of one-character strings, so that             *)
(* safe_filename, the "-{count}" suffix and key composition are computed   *)
(* as the code computes them.                                              *)
(***************************************************************************)
EXTENDS Integers, Sequences, FiniteSets, TLC

\* ---------------------------------------------------------------- bounds
\* largest number of data rows of an input file
MaxRows == 4

\* ------------------------------------------------------- string helpers
Range(s) == {s[i] : i \in DOMAIN s}

Digits == <<"0", "1", "2", "3", "4", "5", "6", "7", "8", "9">>

\* str(n) of a non-negative integer, as used by the f-strings
RECURSIVE ToStr(_)
ToStr(n) == IF n < 10 THEN <<Digits[n + 1]>>
            ELSE ToStr(n \div 10) \o <<Digits[(n % 10) + 1]>>

\* str.endswith
EndsWith(s, p) == Len(s) >= Len(p) /\ SubSeq(s, Len(s) - Len(p) + 1, Len(s)) = p

\* str.strip(chars): drop leading and trailing characters of the set
RECURSIVE LStrip(_, _)
LStrip(s, chars) == IF s # <<>> /\ Head(s) \in chars THEN LStrip(Tail(s), chars) ELSE s

RECURSIVE RStrip(_, _)
RStrip(s, chars) == IF s # <<>> /\ s[Len(s)] \in chars
                    THEN RStrip(SubSeq(s, 1, Len(s) - 1), chars) ELSE s

Strip(s, chars) == RStrip(LStrip(s, chars), chars)

\* characters removed by str.strip() without argument
Whitespace == {" ", "\t", "\n", "\r", "\f"}

\* the character class A-Za-z0-9._- of safe_filename
AllowedChars ==
    {"a", "b", "c", "d", "e", "f", "g", "h", "i", "j", "k", "l", "m",
     "n", "o", "p", "q", "r", "s", "t", "u", "v", "w", "x", "y", "z",
     "A", "B", "C", "D", "E", "F", "G", "H", "I", "J", "K", "L", "M",
     "N", "O", "P", "Q", "R", "S", "T", "U", "V", "W", "X", "Y", "Z",
     "0", "1", "2", "3", "4", "5", "6", "7", "8", "9", ".", "_", "-"}

\* re.sub(r"[^A-Za-z0-9._-]+", "_", s): every maximal run of characters
\* outside the class becomes one underscore
RECURSIVE ReSub(_, _)
ReSub(s, inRun) ==
    IF s = <<>> THEN <<>>
    ELSE IF Head(s) \in AllowedChars THEN <<Head(s)>> \o ReSub(Tail(s), FALSE)
    ELSE IF inRun THEN ReSub(Tail(s), TRUE)
    ELSE <<"_">> \o ReSub(Tail(s), TRUE)

\* safe_filename before its fallback: substitute, then trim . _ -
Cleaned(name) == Strip(ReSub(Strip(name, Whitespace), FALSE), {".", "_", "-"})

Unnamed == <<"u", "n", "n", "a", "m", "e", "d">>

safe_filename(name) == IF Cleaned(name) # <<>> THEN Cleaned(name) ELSE Unnamed

\* ------------------------------------------------------------ locators
S3Scheme == <<"s", "3", ":", "/", "/">>

\* index of the first "/" of s, 0 when there is none
RECURSIVE FirstSlash(_, _)
FirstSlash(s, i) == IF i > Len(s) THEN 0
                    ELSE IF s[i] = "/" THEN i ELSE FirstSlash(s, i + 1)

\* parse_s3_uri on a URI that starts with s3:// : (bucket, key)
parse_s3_uri(uri) ==
    LET rest == SubSeq(uri, Len(S3Scheme) + 1, Len(uri))
        k    == FirstSlash(rest, 1)
    IN  IF k = 0 THEN [bucket |-> rest, key |-> <<>>]
        ELSE [bucket |-> SubSeq(rest, 1, k - 1), key |-> SubSeq(rest, k + 1, Len(rest))]

normalize_prefix(prefix) ==
    IF prefix # <<>> /\ ~EndsWith(prefix, <<"/">>) THEN prefix \o <<"/">> ELSE prefix

S3Uri(bucket, key) == S3Scheme \o bucket \o <<"/">> \o key

\* -------------------------------------------------------- the row loop
\* f"row-{idx}"
RowName(idx) == <<"r", "o", "w", "-">> \o ToStr(idx)

\* raw_name = row.get(id_column) or f"row-{idx}"
RawName(row, idColumn, idx) ==
    IF idColumn \in DOMAIN row /\ row[idColumn] # <<>> THEN row[idColumn] ELSE RowName(idx)

\* base_name = safe_filename(str(raw_name)) or f"row-{idx}"
BaseName(raw, idx) ==
    IF safe_filename(raw) # <<>> THEN safe_filename(raw) ELSE RowName(idx)

\* name_counts.get(base_name, 0)
CountOf(counts, base) == IF base \in DOMAIN counts THEN counts[base] ELSE 0

\* name_counts[base_name] = count + 1
Bump(counts, base) ==
    [b \in DOMAIN counts \cup {base} |-> IF b = base THEN CountOf(counts, base) + 1 ELSE counts[b]]

\* a variant that numbers the duplicates from 2
FinalNameFromTwo(base, count) ==
    IF count = 0 THEN base ELSE base \o <<"-">> \o ToStr(count + 1)

\* final_name = base_name if count == 0 else f"{base_name}-{count}"
FinalName(base, count) == IF count = 0 THEN base ELSE base \o <<"-">> \o ToStr(count)

\* out_key = f"{output_prefix}{final_name}.csv"
OutKey(prefix, final) == prefix \o final \o <<".", "c", "s", "v">>

ManifestKey(prefix) ==
    prefix \o <<"_", "M", "A", "N", "I", "F", "E", "S", "T", ".", "j", "s", "o", "n">>

SummaryKey(prefix) ==
    prefix \o <<"R", "U", "N", "_", "S", "U", "M", "M", "A", "R", "Y", ".", "j", "s", "o", "n">>

\* a variant that writes the failure report under the summary's name
FailedKeyAsSummary(prefix) == SummaryKey(prefix)

FailedKey(prefix) ==
    prefix \o <<"R", "U", "N", "_", "F", "A", "I", "L", "E", "D", ".", "t", "x", "t">>

\* ------------------------------------------------------------- inputs
IdColumn == "source_identifier"

OtherColumn == "value"

\* identifier values of the input rows: empty, plain, one that looks like a
\* suffixed name, one that sanitizes to nothing, one that needs trimming
IdValues == {<<>>, <<"a">>, <<"a", "-", "1">>, <<"#", "#">>, <<" ", "a", "/">>}

\* header lines: none, one with the identifier column, one without it
Headers == {<<>>, <<IdColumn, OtherColumn>>, <<OtherColumn>>}

OutputUris == {S3Scheme \o <<"b">>, S3Scheme \o <<"b", "/", "p">>}

RowSeqs == UNION {[1..n -> IdValues] : n \in 0..MaxRows}

\* the dict csv.DictReader yields for a data line whose identifier cell is v
DictRow(fields, v) ==
    [c \in Range(fields) |-> IF c = IdColumn THEN v ELSE <<"x">>]

\* ------------------------------------------------------------- storage
\* s3.put_object: the object at key is created or replaced
PutObject(objects, key, body) ==
    [k \in DOMAIN objects \cup {key} |-> IF k = key THEN body ELSE objects[k]]

\* a variant with a 0-based row_index
ManifestRecordZeroBased(bucket, out_key, idx, raw_name) ==
    [s3_uri |-> S3Uri(bucket, out_key), row_index |-> idx - 1,
     source_identifier |-> raw_name]

\* the record appended to manifest after a row's put_object
ManifestRecord(bucket, out_key, idx, raw_name) ==
    [s3_uri |-> S3Uri(bucket, out_key), row_index |-> idx,
     source_identifier |-> raw_name]

\* a variant in which the last exception raised wins
ReraiseLast(e, secondary) == IF secondary # "none" THEN secondary ELSE e

\* the bare raise of the except block: the exception being handled
Reraise(e, secondary) == e

\* a variant that never checks the header
HeaderNeverMissing(fields) == FALSE

\* if not fieldnames
HeaderMissing(fields) == fields = <<>>

\* ---------------------------------------------------------------- state
VARIABLES
    fieldnames,     \* reader.fieldnames of the input (<<>>: no header)
    lines,          \* identifier cells of the data rows, in input order
    output_s3_uri,  \* --output_s3_uri
    write_run_log,  \* str2bool(--write_run_log)
    pc,             \* position of main()
    total,          \* total
    name_counts,    \* name_counts
    manifest,       \* manifest
    names,          \* per row read: the locals idx, raw_name, base_name, final_name, out_key
    store,          \* objects of the output bucket, key -> body
    puts,           \* keys of the put_object calls that succeeded, in call order
    err,            \* the exception raised inside the try block, "none" if none
    report_err,     \* the exception swallowed while writing RUN_FAILED.txt
    raised,         \* the exception that leaves main(), "none" if none
    commits,        \* number of job.commit() calls
    outcome         \* "running", "Succeeded" or "Failed"

vars == <<fieldnames, lines, output_s3_uri, write_run_log, pc, total, name_counts,
          manifest, names, store, puts, err, report_err, raised, commits, outcome>>

input == <<fieldnames, lines, output_s3_uri, write_run_log>>

output_bucket == parse_s3_uri(output_s3_uri).bucket

output_prefix == normalize_prefix(parse_s3_uri(output_s3_uri).key)

Init ==
    /\ fieldnames \in Headers
    /\ lines \in RowSeqs
    /\ output_s3_uri \in OutputUris
    /\ write_run_log \in BOOLEAN
    /\ pc = "session"
    /\ total = 0
    /\ name_counts = <<>>
    /\ manifest = <<>>
    /\ names = <<>>
    /\ store = <<>>
    /\ puts = <<>>
    /\ err = "none"
    /\ report_err = "none"
    /\ raised = "none"
    /\ commits = 0
    /\ outcome = "running"

\* ---------------------------------------------------------------- steps
\* SparkContext/GlueContext/Job are created and job.init is tried; a failure
\* of job.init is swallowed
InitSession ==
    /\ pc = "session"
    /\ pc' = "client"
    /\ UNCHANGED <<input, total, name_counts, manifest, names, store, puts, err,
                   report_err, raised, commits, outcome>>

\* s3 = boto3.client("s3"), outside the try block: a failure leaves main()
\* at once
CreateClient ==
    /\ pc = "client"
    /\ \E ok \in BOOLEAN :
          IF ok
          THEN /\ pc' = "read"
               /\ UNCHANGED <<raised, outcome>>
          ELSE /\ pc' = "done"
               /\ raised' = "ClientError"
               /\ outcome' = "Failed"
    /\ UNCHANGED <<input, total, name_counts, manifest, names, store, puts, err,
                   report_err, commits>>

\* an exception inside the try block: control moves to the except block
Throw(e) ==
    /\ err' = e
    /\ pc' = "except"

\* s3.get_object and the header: reader.fieldnames, if not fieldnames: raise
ReadHeader ==
    /\ pc = "read"
    /\ \E ok \in BOOLEAN :
          IF ~ok THEN Throw("GetObjectError")
          ELSE IF HeaderMissing(fieldnames) THEN Throw("MissingHeaderError")
          ELSE /\ pc' = "rows"
               /\ UNCHANGED err
    /\ UNCHANGED <<input, total, name_counts, manifest, names, store, puts,
                   report_err, raised, commits, outcome>>

\* the reader fails to decode or parse the next record
ReadRowFails ==
    /\ pc = "rows"
    /\ total < Len(lines)
    /\ Throw("RowReadError")
    /\ UNCHANGED <<input, total, name_counts, manifest, names, store, puts,
                   report_err, raised, commits, outcome>>

\* one iteration of the for loop
ProcessRow ==
    /\ pc = "rows"
    /\ total < Len(lines)
    /\ LET idx        == total + 1
           row        == DictRow(fieldnames, lines[idx])
           raw_name   == RawName(row, IdColumn, idx)
           base_name  == BaseName(raw_name, idx)
           count      == CountOf(name_counts, base_name)
           final_name == FinalName(base_name, count)
           out_key    == OutKey(output_prefix, final_name)
       IN  /\ total' = total + 1
           /\ name_counts' = Bump(name_counts, base_name)
           /\ names' = Append(names, [idx |-> idx, raw_name |-> raw_name,
                                      base_name |-> base_name,
                                      final_name |-> final_name, out_key |-> out_key])
           /\ \E ok \in BOOLEAN :
                 IF ok
                 THEN /\ store' = PutObject(store, out_key,
                                            [content_type |-> "text/csv", row_index |-> idx])
                      /\ puts' = Append(puts, out_key)
                      /\ manifest' = Append(manifest,
                                            ManifestRecord(output_bucket, out_key,
                                                           idx, raw_name))
                      /\ UNCHANGED <<pc, err>>
                 ELSE /\ Throw("PutRowError")
                      /\ UNCHANGED <<store, puts, manifest>>
    /\ UNCHANGED <<input, report_err, raised, commits, outcome>>

\* after the loop: the manifest object
WriteManifest ==
    /\ pc = "rows"
    /\ total = Len(lines)
    /\ \E ok \in BOOLEAN :
          IF ok
          THEN /\ store' = PutObject(store, ManifestKey(output_prefix),
                                     [content_type |-> "application/json",
                                      files |-> manifest, total_rows |-> total])
               /\ puts' = Append(puts, ManifestKey(output_prefix))
               /\ pc' = "summary"
               /\ UNCHANGED err
          ELSE /\ Throw("PutManifestError")
               /\ UNCHANGED <<store, puts>>
    /\ UNCHANGED <<input, total, name_counts, manifest, names, report_err, raised,
                   commits, outcome>>

\* if write_run_log: RUN_SUMMARY.json
WriteSummary ==
    /\ pc = "summary"
    /\ IF ~write_run_log
       THEN /\ pc' = "finally"
            /\ UNCHANGED <<store, puts, err>>
       ELSE \E ok \in BOOLEAN :
               IF ok
               THEN /\ store' = PutObject(store, SummaryKey(output_prefix),
                                          [content_type |-> "application/json",
                                           status |-> "SUCCEEDED", total_rows |-> total])
                    /\ puts' = Append(puts, SummaryKey(output_prefix))
                    /\ pc' = "finally"
                    /\ UNCHANGED err
               ELSE /\ Throw("PutSummaryError")
                    /\ UNCHANGED <<store, puts>>
    /\ UNCHANGED <<input, total, name_counts, manifest, names, report_err, raised,
                   commits, outcome>>

\* except Exception: best-effort RUN_FAILED.txt, then raise
HandleException ==
    /\ pc = "except"
    /\ IF ~write_run_log
       THEN /\ UNCHANGED <<store, puts, report_err>>
            /\ raised' = Reraise(err, "none")
       ELSE \E ok \in BOOLEAN :
               IF ok
               THEN /\ store' = PutObject(store, FailedKey(output_prefix),
                                          [content_type |-> "text/plain",
                                           status |-> "FAILED", error |-> err,
                                           processed_rows |-> total])
                    /\ puts' = Append(puts, FailedKey(output_prefix))
                    /\ UNCHANGED report_err
                    /\ raised' = Reraise(err, "none")
               ELSE /\ report_err' = "PutReportError"
                    /\ UNCHANGED <<store, puts>>
                    /\ raised' = Reraise(err, "PutReportError")
    /\ pc' = "finally"
    /\ UNCHANGED <<input, total, name_counts, manifest, names, err, commits, outcome>>

\* finally: job.commit(), its own failure swallowed; then main() returns or
\* the pending exception leaves main()
Finally ==
    /\ pc = "finally"
    /\ commits' = commits + 1
    /\ outcome' = IF raised = "none" THEN "Succeeded" ELSE "Failed"
    /\ pc' = "done"
    /\ UNCHANGED <<input, total, name_counts, manifest, names, store, puts, err,
                   report_err, raised>>

Next ==
    \/ InitSession
    \/ CreateClient
    \/ ReadHeader
    \/ ReadRowFails
    \/ ProcessRow
    \/ WriteManifest
    \/ WriteSummary
    \/ HandleException
    \/ Finally

Spec == Init /\ [][Next]_vars

\* ------------------------------------------------------------ properties
\* keys of the per-row objects present in the bucket
RowObjects == {k \in DOMAIN store : store[k].content_type = "text/csv"}

\* number of successful put_object calls on a key
PutCount(key) == Cardinality({i \in DOMAIN puts : puts[i] = key})

CsvKey(name) == output_prefix \o name \o <<".", "c", "s", "v">>

\* C1: the output keys derived for two different rows of one run are never
\* equal, and a successful run over k rows leaves k distinct per-row objects.
C1_UniqueKeys ==
    /\ \A i, j \in DOMAIN names : i # j => names[i].out_key # names[j].out_key
    /\ outcome = "Succeeded" => Cardinality(RowObjects) = Len(lines)

\* C2: a run that ends Succeeded over k rows has written exactly one manifest
\* object, at output_prefix + "_MANIFEST.json"; its total_rows is k and its
\* files list has k records, the i-th with row_index i and the key put for the
\* i-th input row.
C2_ManifestOnSuccess ==
    outcome = "Succeeded" =>
        /\ PutCount(ManifestKey(output_prefix)) = 1
        /\ ManifestKey(output_prefix) \in DOMAIN store
        /\ LET m == store[ManifestKey(output_prefix)]
           IN  /\ m.total_rows = Len(lines)
               /\ Len(m.files) = Len(lines)
               /\ \A i \in DOMAIN m.files :
                     /\ m.files[i].row_index = i
                     /\ m.files[i].s3_uri = S3Uri(output_bucket, puts[i])
                     /\ puts[i] = names[i].out_key

C2_Witness ==
    /\ outcome = "Succeeded"
    /\ Len(lines) >= 2
    /\ Len(store[ManifestKey(output_prefix)].files) = Len(lines)

\* C3: the first row with base name b is written as b.csv and the n-th later
\* row with base name b as b-n.csv, in input order; the registry count of b
\* is the number of rows seen so far with base name b.
C3_CollisionNaming ==
    /\ \A i \in DOMAIN names :
          LET b == names[i].base_name
              n == Cardinality({j \in 1..(i - 1) : names[j].base_name = b})
          IN  /\ names[i].out_key =
                    (IF n = 0 THEN CsvKey(b) ELSE CsvKey(b \o <<"-">> \o ToStr(n)))
              /\ i <= Len(manifest) => puts[i] = names[i].out_key
              /\ b \in DOMAIN name_counts
    /\ \A b \in DOMAIN name_counts :
          name_counts[b] = Cardinality({j \in DOMAIN names : names[j].base_name = b})

\* identifiers a, a, a are written as a.csv, a-1.csv, a-2.csv in that order
C3_Witness ==
    /\ IdColumn \in Range(fieldnames)
    /\ lines = <<(<<"a">>), (<<"a">>), (<<"a">>)>>
    /\ output_prefix = <<>>
    /\ puts = << <<"a", ".", "c", "s", "v">>,
                 <<"a", "-", "1", ".", "c", "s", "v">>,
                 <<"a", "-", "2", ".", "c", "s", "v">> >>
    /\ name_counts[<<"a">>] = 3

\* C4: when the put of the per-row object fails at row j, at run end exactly
\* the j-1 objects of rows 1..j-1 exist, none of a row >= j, no manifest
\* object exists and the run ends Failed.
C4_PartialOutput ==
    (pc = "done" /\ err = "PutRowError") =>
        LET j == Len(names)
        IN  /\ Cardinality(RowObjects) = j - 1
            /\ \A i \in 1..(j - 1) :
                  /\ names[i].out_key \in DOMAIN store
                  /\ store[names[i].out_key].row_index = i
            /\ ManifestKey(output_prefix) \notin DOMAIN store
            /\ outcome = "Failed"

\* C5: when the put of the per-row object fails at row j and RUN_FAILED.txt is
\* written, its processed_rows is j-1, the number of per-row objects written.
C5_ProcessedRows ==
    (err = "PutRowError" /\ FailedKey(output_prefix) \in DOMAIN store) =>
        /\ store[FailedKey(output_prefix)].processed_rows = Len(names) - 1
        /\ store[FailedKey(output_prefix)].processed_rows = Len(manifest)

\* C6: with no header row the run ends Failed, the failure is raised before
\* any object has been written, and no per-row object and no manifest object
\* is ever written.
C6_MissingHeader ==
    fieldnames = <<>> =>
        /\ \A i \in DOMAIN puts : puts[i] = FailedKey(output_prefix)
        /\ RowObjects = {}
        /\ ManifestKey(output_prefix) \notin DOMAIN store
        /\ names = <<>>
        /\ pc = "except" => puts = <<>>
        /\ pc = "done" => outcome = "Failed"

C6_Witness ==
    /\ fieldnames = <<>>
    /\ Len(lines) >= 1
    /\ err = "MissingHeaderError"
    /\ pc = "done"

\* C7: on every exit path of a run whose session was initialized, job.commit
\* has been executed exactly once when the run terminates.
C7_CommitOnce == pc = "done" => commits = 1

\* C8: when the write of the failure report fails too, the run still ends
\* Failed with the original exception, and the report write was attempted
\* before the failure is signalled.
C8_OriginalError ==
    /\ report_err # "none" =>
          /\ err # "none"
          /\ pc \in {"finally", "done"}
          /\ raised = err
          /\ raised # report_err
          /\ pc = "done" => outcome = "Failed"
    /\ (pc = "done" /\ err # "none" /\ write_run_log) =>
          (PutCount(FailedKey(output_prefix)) = 1 \/ report_err # "none")

C8_Witness ==
    /\ pc = "done"
    /\ err = "PutRowError"
    /\ report_err = "PutReportError"
    /\ Len(manifest) >= 1

\* C9: a row whose identifier is non-empty but sanitizes to nothing gets the
\* base name row-{idx}.
C9_RowFallback ==
    \A i \in DOMAIN names :
        (IdColumn \in Range(fieldnames) /\ lines[i] # <<>> /\ Cleaned(lines[i]) = <<>>)
            => names[i].base_name = RowName(i)

\* C10: a run that ends Failed has never written RUN_SUMMARY.json, a run that
\* ends Succeeded has never written RUN_FAILED.txt, and no run writes both.
C10_ReportsAgree ==
    /\ outcome = "Failed" => PutCount(SummaryKey(output_prefix)) = 0
    /\ outcome = "Succeeded" => PutCount(FailedKey(output_prefix)) = 0
    /\ ~(PutCount(SummaryKey(output_prefix)) > 0 /\ PutCount(FailedKey(output_prefix)) > 0)

C10_Witness ==
    /\ outcome = "Failed"
    /\ err = "PutSummaryError"
    /\ PutCount(FailedKey(output_prefix)) = 1
    /\ ManifestKey(output_prefix) \in DOMAIN store

====
